---- MODULE Spec2Model ----
(***************************************************************************)
(* Model of invenio_base/urls.py: InvenioAppsUrlsBuilder (setup, prefix,   *)
(* build), the factory made by create_invenio_apps_urls_builder_factory,   *)
(* and the parts of werkzeug's Map/Rule/MapAdapter.build and of Flask that *)
(* the builder relies on.                                                  *)
(*                                                                         *)
(* Strings are TLA+ strings; a URL is built with \o exactly as the code    *)
(* builds it with +.  A dict is a sequence of <<key, value>> pairs with    *)
(* distinct keys (Python dicts keep insertion order).                      *)
(***************************************************************************)
EXTENDS Naturals, Sequences, FiniteSets, TLC

VARIABLES
    config,     \* current_app.config (the same app that setup() receives)
    own_map,    \* current_app.url_map: the rules, in insertion order
    builder,    \* the InvenioAppsUrlsBuilder object under observation
    last        \* the most recent build() call and how it ended

vars == <<config, own_map, builder, last>>

-----------------------------------------------------------------------------
(* Bounds of the model. *)

\* Largest number of entries of the `values` dict handed to build().
MaxValues == 1

\* Largest number of rules of the current application's url_map.
MaxOwnRules == 2

-----------------------------------------------------------------------------
(* Python's None, and the marker of an absent config key. *)

None == "None"

Missing == "<missing>"

(* The two configuration keys that name the prefixes. *)
AppPrefixKey == "SITE_UI_URL"

OtherPrefixKey == "SITE_API_URL"

PrefixKeys == {AppPrefixKey, OtherPrefixKey}

(* Values the configuration may hold under each key. *)
PrefixValues(key) ==
    IF key = AppPrefixKey
    THEN {"https://main.example.org", "https://www.example.org"}
    ELSE {"https://archive.example.org"}

(* BLUEPRINTS_URL_PREFIXES: absent, or a dict blueprint name -> url prefix. *)
NoBlueprintPrefixes == [present |-> FALSE, value |-> <<>>]

ApiBlueprintPrefixes == [present |-> TRUE, value |-> <<<<"search", "/api">>>>]

-----------------------------------------------------------------------------
(* dicts as sequences of pairs *)

HasKey(d, k) == \E i \in 1..Len(d) : d[i][1] = k

Get(d, k) == d[CHOOSE i \in 1..Len(d) : d[i][1] = k][2]

DictGet(d, k, default) == IF HasKey(d, k) THEN Get(d, k) ELSE default

-----------------------------------------------------------------------------
(* werkzeug.routing.Rule.  `rule` is the parsed pattern (werkzeug's        *)
(* Rule._trace): a sequence of static parts and <converter:argument>       *)
(* parts.  `methods` is a set of method names, or {None} for methods=None. *)

Static(s) == [dyn |-> FALSE, conv |-> "", data |-> s]

Arg(conv, name) == [dyn |-> TRUE, conv |-> conv, data |-> name]

\* Rule.__init__: a rule that accepts GET also accepts HEAD.
Rule(string, endpoint, methods) ==
    [rule |-> string,
     endpoint |-> endpoint,
     methods |-> IF methods = {None} THEN {None}
                 ELSE IF "GET" \in methods THEN methods \cup {"HEAD"}
                 ELSE methods]

\* Rule.arguments
Arguments(r) == {r.rule[i].data : i \in {j \in 1..Len(r.rule) : r.rule[j].dyn}}

\* Flask.add_url_rule: every route also answers OPTIONS and carries a view
\* function; the view function lives in app.view_functions, not in the Rule.
FlaskRule(string, endpoint, methods) ==
    Rule(string, endpoint, methods \cup {"OPTIONS"})

\* The route every Flask application registers for its static folder.
StaticRule ==
    FlaskRule(<<Static("/static/"), Arg("path", "filename")>>, "static", {"GET"})

-----------------------------------------------------------------------------
(* Percent-encoding, character by character. *)

\* urllib.parse.quote as the path converters use it: a space becomes %20.
RECURSIVE QuoteFrom(_, _)
QuoteFrom(s, i) ==
    IF i > Len(s) THEN ""
    ELSE (IF SubSeq(s, i, i) = " " THEN "%20" ELSE SubSeq(s, i, i))
         \o QuoteFrom(s, i + 1)

\* urllib.parse.quote_plus as the query string uses it: a space becomes +.
RECURSIVE QuotePlusFrom(_, _)
QuotePlusFrom(s, i) ==
    IF i > Len(s) THEN ""
    ELSE (IF SubSeq(s, i, i) = " " THEN "+" ELSE SubSeq(s, i, i))
         \o QuotePlusFrom(s, i + 1)

\* BaseConverter.to_url / PathConverter.to_url
ToUrl(conv, value) == QuoteFrom(value, 1)

\* str.lstrip("/")
RECURSIVE LStripSlash(_)
LStripSlash(s) ==
    IF Len(s) > 0 /\ SubSeq(s, 1, 1) = "/"
    THEN LStripSlash(SubSeq(s, 2, Len(s)))
    ELSE s

-----------------------------------------------------------------------------
(* werkzeug.routing.Rule.suitable_for and Rule.build *)

\* Rule.suitable_for(values, method): the method is accepted and every
\* argument of the pattern has a value.
SuitableFor(r, values, method) ==
    /\ ~(method # None /\ r.methods # {None} /\ method \notin r.methods)
    /\ \A a \in Arguments(r) : HasKey(values, a)

\* The path of the rule with the values filled in.
RECURSIVE BuildPath(_, _, _)
BuildPath(trace, values, i) ==
    IF i > Len(trace) THEN ""
    ELSE (IF trace[i].dyn
          THEN ToUrl(trace[i].conv, Get(values, trace[i].data))
          ELSE trace[i].data)
         \o BuildPath(trace, values, i + 1)

\* The values that are no argument of the rule, in dict order.
Unknown(r, values) ==
    SelectSeq(values, LAMBDA kv : kv[1] \notin Arguments(r))

\* urlencode of the unknown values: k=v joined with &.
RECURSIVE EncodeQueryVars(_, _)
EncodeQueryVars(q, i) ==
    IF i > Len(q) THEN ""
    ELSE (IF i > 1 THEN "&" ELSE "")
         \o QuotePlusFrom(q[i][1], 1) \o "=" \o QuotePlusFrom(q[i][2], 1)
         \o EncodeQueryVars(q, i + 1)

\* Rule.build(values, append_unknown=True)
RuleBuild(r, values) ==
    LET q == Unknown(r, values)
    IN  BuildPath(r.rule, values, 1)
        \o (IF Len(q) > 0 THEN "?" \o EncodeQueryVars(q, 1) ELSE "")

-----------------------------------------------------------------------------
(* werkzeug.routing.Map and MapAdapter.build, bound with bind("") *)

\* Map._rules_by_endpoint[endpoint] after Map.update(): the rules of the
\* endpoint, those with more arguments first, otherwise in insertion order
\* (a stable sort on build_compare_key).
RulesByEndpoint(map, endpoint) ==
    LET idx == {i \in 1..Len(map) : map[i].endpoint = endpoint}
        Before(i, j) ==
            \/ Cardinality(Arguments(map[i])) > Cardinality(Arguments(map[j]))
            \/ /\ Cardinality(Arguments(map[i])) = Cardinality(Arguments(map[j]))
               /\ i < j
        RECURSIVE Sorted(_)
        Sorted(S) ==
            IF S = {} THEN <<>>
            ELSE LET f == CHOOSE i \in S : \A j \in S \ {i} : Before(i, j)
                 IN  <<map[f]>> \o Sorted(S \ {f})
    IN  Sorted(idx)

\* The first suitable rule of the endpoint, or <<>>.
FirstSuitable(map, endpoint, values, method) ==
    SelectSeq(RulesByEndpoint(map, endpoint),
              LAMBDA r : SuitableFor(r, values, method))

\* MapAdapter._partial_build: with method None the default method GET is
\* tried first, then any rule.  The result is <<>> (Python's None) or
\* <<path>>.
PartialBuild(map, endpoint, values, method) ==
    LET viaDefault == IF method = None
                      THEN FirstSuitable(map, endpoint, values, "GET")
                      ELSE <<>>
        viaGiven == FirstSuitable(map, endpoint, values, method)
    IN  IF Len(viaDefault) > 0 THEN <<RuleBuild(viaDefault[1], values)>>
        ELSE IF Len(viaGiven) > 0 THEN <<RuleBuild(viaGiven[1], values)>>
        ELSE <<>>

\* MapAdapter.build(endpoint, values, method=method, force_external=False)
\* on map.bind(""): <<>> when BuildError is raised, else <<relative url>>.
\* script_name is "/", so the url is "" + "/" + path.lstrip("/").
AdapterBuild(map, endpoint, values, method) ==
    LET rv == PartialBuild(map, endpoint, values, method)
    IN  IF rv = <<>> THEN <<>> ELSE <<"/" \o LStripSlash(rv[1])>>

-----------------------------------------------------------------------------
(* The installed entry points: group name -> entry points.  An entry point *)
(* either loads to a blueprint or raises when loaded.                      *)

Blueprint(name, rules) == [loads |-> TRUE, name |-> name, rules |-> rules]

BrokenEntryPoint == [loads |-> FALSE, name |-> "broken", rules |-> <<>>]

ApiGroup == "invenio_base.api_blueprints"

RecordsGroup == "invenio_records.api_blueprints"

BrokenGroup == "broken.api_blueprints"

EntryPoints(group) ==
    IF group = ApiGroup
    THEN <<Blueprint("search",
                     <<[rule |-> <<Static("/search")>>, endpoint |-> "results",
                        methods |-> {"GET"}]>>)>>
    ELSE IF group = RecordsGroup
    THEN <<Blueprint("records",
                     <<[rule |-> <<Static("/records")>>, endpoint |-> "detail",
                        methods |-> {"GET", "POST"}]>>)>>
    ELSE IF group = BrokenGroup THEN <<BrokenEntryPoint>>
    ELSE <<>>

\* The entry-point groups a builder may be constructed with.
GroupChoices ==
    {<<ApiGroup>>, <<ApiGroup, RecordsGroup>>, <<ApiGroup, BrokenGroup>>}

\* All entry points of the groups, group after group.
RECURSIVE EntryPointsOf(_, _)
EntryPointsOf(groups, i) ==
    IF i > Len(groups) THEN <<>>
    ELSE EntryPoints(groups[i]) \o EntryPointsOf(groups, i + 1)

\* app.register_blueprint(bp, url_prefix=...): each rule of the blueprint
\* becomes a rule of the application, the prefix in front of its pattern and
\* the blueprint's name in front of its endpoint.
RegisterBlueprint(bp, url_prefix) ==
    [i \in 1..Len(bp.rules) |->
        LET r == bp.rules[i]
        IN  FlaskRule([r.rule EXCEPT ![1].data = url_prefix \o @],
                      bp.name \o "." \o r.endpoint, r.methods)]

\* invenio_base.app.blueprint_loader(app_tmp, entry_points=groups): loads
\* every entry point of the groups and registers its blueprint under the
\* prefix BLUEPRINTS_URL_PREFIXES gives for its name.  ok is FALSE when an
\* entry point raises; the error is re-raised.
RECURSIVE LoadBlueprints(_, _, _)
LoadBlueprints(eps, url_prefixes, i) ==
    IF i > Len(eps) THEN [ok |-> TRUE, rules |-> <<>>]
    ELSE IF ~eps[i].loads THEN [ok |-> FALSE, rules |-> <<>>]
    ELSE LET rest == LoadBlueprints(eps, url_prefixes, i + 1)
         IN  [ok |-> rest.ok,
              rules |-> RegisterBlueprint(eps[i],
                                          DictGet(url_prefixes, eps[i].name, ""))
                        \o rest.rules]

blueprint_loader(url_prefixes, groups) ==
    LoadBlueprints(EntryPointsOf(groups, 1), url_prefixes, 1)

-----------------------------------------------------------------------------
(* InvenioAppsUrlsBuilder *)

NoBuilder ==
    [state |-> "none", origin |-> "none",
     cfg_of_app_prefix |-> "", cfg_of_other_app_prefix |-> "",
     groups_of_other_app_entrypoints |-> <<>>,
     url_map |-> <<>>, raised |-> ""]

\* __init__: the three arguments are stored; there is no url_map yet.
NewBuilder(a, o, g, origin) ==
    [state |-> "constructed", origin |-> origin,
     cfg_of_app_prefix |-> a, cfg_of_other_app_prefix |-> o,
     groups_of_other_app_entrypoints |-> g,
     url_map |-> <<>>, raised |-> ""]

\* app_tmp = Flask("InvenioAppsUrlsBuilder"): the shell application starts
\* with the static route every Flask application registers for itself.
TmpAppRules == <<StaticRule>>

\* app.config.get("BLUEPRINTS_URL_PREFIXES", {})
BlueprintsUrlPrefixes(cfg) ==
    IF cfg.BLUEPRINTS_URL_PREFIXES.present
    THEN cfg.BLUEPRINTS_URL_PREFIXES.value
    ELSE <<>>

\* Map([Rule(r.rule, endpoint=r.endpoint) for r in app_tmp.url_map.iter_rules()])
CopyRules(rules) ==
    [i \in 1..Len(rules) |-> Rule(rules[i].rule, rules[i].endpoint, {None})]

\* setup() with the error of blueprint_loader caught: the builder gets the
\* mirror of whatever the shell application held.
SetupBuilder_swallowing(b, cfg) ==
    [b EXCEPT !.state = "ready",
              !.url_map = CopyRules(TmpAppRules),
              !.raised = ""]

\* setup(app): the builder after the call.  When blueprint_loader raises,
\* the assignment to self.url_map is never reached.
SetupBuilder(b, cfg) ==
    LET loaded == blueprint_loader(BlueprintsUrlPrefixes(cfg),
                                   b.groups_of_other_app_entrypoints)
    IN  IF loaded.ok
        THEN [b EXCEPT !.state = "ready",
                       !.url_map = CopyRules(TmpAppRules \o loaded.rules),
                       !.raised = ""]
        ELSE [b EXCEPT !.raised = "DiscoveryError"]

\* prefix() written with config.get(site_cfg, ""): an absent key gives "".
prefix_with_default(cfg, site_cfg) ==
    IF cfg[site_cfg] = Missing THEN <<"">> ELSE <<cfg[site_cfg]>>

\* prefix(site_cfg): current_app.config[site_cfg]; <<>> stands for KeyError.
prefix(cfg, site_cfg) ==
    IF cfg[site_cfg] = Missing THEN <<>> ELSE <<cfg[site_cfg]>>

Url(u) == [kind |-> "url", value |-> u]

BuildError == [kind |-> "BuildError", value |-> ""]

KeyError(key) == [kind |-> "KeyError", value |-> key]

AttributeError == [kind |-> "AttributeError", value |-> "url_map"]

\* self.prefix(site_cfg) + url_relative
Prefixed(cfg, site_cfg, url_relative) ==
    IF prefix(cfg, site_cfg) = <<>> THEN KeyError(site_cfg)
    ELSE Url(prefix(cfg, site_cfg)[1] \o url_relative)

\* build() that asks the mirror before the own table.
build_mirror_first(b, cfg, own, endpoint, values, method) ==
    LET phase1 == AdapterBuild(own, endpoint, values, method)
        phase2 == AdapterBuild(b.url_map, endpoint, values, method)
    IN  IF b.state = "ready" /\ phase2 # <<>>
        THEN Prefixed(cfg, b.cfg_of_other_app_prefix, phase2[1])
        ELSE IF phase1 # <<>> THEN Prefixed(cfg, b.cfg_of_app_prefix, phase1[1])
        ELSE IF b.state # "ready" THEN AttributeError
        ELSE BuildError

\* build() that puts the other-app prefix in front of an own-table path.
build_other_prefix(b, cfg, own, endpoint, values, method) ==
    LET phase1 == AdapterBuild(own, endpoint, values, method)
        phase2 == AdapterBuild(b.url_map, endpoint, values, method)
    IN  IF phase1 # <<>> THEN Prefixed(cfg, b.cfg_of_other_app_prefix, phase1[1])
        ELSE IF b.state # "ready" THEN AttributeError
        ELSE IF phase2 = <<>> THEN BuildError
        ELSE Prefixed(cfg, b.cfg_of_other_app_prefix, phase2[1])

\* build() that puts the own-app prefix in front of a mirror path.
build_app_prefix_twice(b, cfg, own, endpoint, values, method) ==
    LET phase1 == AdapterBuild(own, endpoint, values, method)
        phase2 == AdapterBuild(b.url_map, endpoint, values, method)
    IN  IF phase1 # <<>> THEN Prefixed(cfg, b.cfg_of_app_prefix, phase1[1])
        ELSE IF b.state # "ready" THEN AttributeError
        ELSE IF phase2 = <<>> THEN BuildError
        ELSE Prefixed(cfg, b.cfg_of_app_prefix, phase2[1])

\* build() that swallows the BuildError of the mirror and returns the bare
\* prefix.
build_prefix_only(b, cfg, own, endpoint, values, method) ==
    LET phase1 == AdapterBuild(own, endpoint, values, method)
        phase2 == AdapterBuild(b.url_map, endpoint, values, method)
    IN  IF phase1 # <<>> THEN Prefixed(cfg, b.cfg_of_app_prefix, phase1[1])
        ELSE IF b.state # "ready" THEN AttributeError
        ELSE IF phase2 = <<>> THEN Prefixed(cfg, b.cfg_of_other_app_prefix, "")
        ELSE Prefixed(cfg, b.cfg_of_other_app_prefix, phase2[1])

\* build(endpoint, values, method): the URL returned or the error raised.
build(b, cfg, own, endpoint, values, method) ==
    LET phase1 == AdapterBuild(own, endpoint, values, method)
        phase2 == AdapterBuild(b.url_map, endpoint, values, method)
    IN  IF phase1 # <<>> THEN Prefixed(cfg, b.cfg_of_app_prefix, phase1[1])
        ELSE IF b.state # "ready" THEN AttributeError
        ELSE IF phase2 = <<>> THEN BuildError
        ELSE Prefixed(cfg, b.cfg_of_other_app_prefix, phase2[1])

-----------------------------------------------------------------------------
(* Inputs *)

Endpoints == {"records.detail", "search.results", "static", "nonexistent.page"}

\* The entries a `values` dict may hold.
ValuePairs == {<<"id", "abc123">>, <<"filename", "a b">>}

MethodHints == {None, "POST"}

\* The dicts of at most n entries.
RECURSIVE Dicts(_)
Dicts(n) ==
    IF n = 0 THEN {<<>>}
    ELSE Dicts(n - 1) \cup
         {Append(d, kv) :
            d \in {x \in Dicts(n - 1) : Len(x) = n - 1}, kv \in ValuePairs}

ValuesDicts ==
    {d \in Dicts(MaxValues) : \A i, j \in 1..Len(d) : d[i][1] = d[j][1] => i = j}

\* The routes the current application may register.
OwnRuleUniverse ==
    {FlaskRule(<<Static("/records/"), Arg("default", "id")>>, "records.detail", {"GET"}),
     StaticRule}

-----------------------------------------------------------------------------
(* State *)

\* `last` before any build() call.  fresh: nothing has happened since the
\* call.  again: whether the call before it had the same arguments, and then
\* whether it ended the "same" way or "differs".
NoCall ==
    [called |-> FALSE, fresh |-> FALSE, again |-> "no", endpoint |-> "",
     values |-> <<>>, method |-> None, outcome |-> BuildError]

Init ==
    /\ config = [SITE_UI_URL |-> Missing, SITE_API_URL |-> Missing,
                 BLUEPRINTS_URL_PREFIXES |-> NoBlueprintPrefixes]
    /\ own_map \in {<<>>, <<StaticRule>>}
    /\ builder = NoBuilder
    /\ last = NoCall

\* Any step but build() ends the run of consecutive build() calls.
Interrupted == last' = [last EXCEPT !.fresh = FALSE]

-----------------------------------------------------------------------------
(* Operations *)

\* _factory that returns the builder without calling setup().
Factory_without_setup(a, o, g) ==
    /\ builder.state = "none"
    /\ builder' = NewBuilder(a, o, g, "factory")
    /\ Interrupted
    /\ UNCHANGED <<config, own_map>>

\* create_invenio_apps_urls_builder_factory(a, o, g)(app): _factory
\* constructs the builder, sets it up and returns it.  An error of setup()
\* leaves the caller without a builder.
Factory(a, o, g) ==
    /\ builder.state = "none"
    /\ LET b == SetupBuilder(NewBuilder(a, o, g, "factory"), config)
       IN  IF b.raised = ""
           THEN builder' = b
           ELSE builder' = [NoBuilder EXCEPT !.raised = b.raised]
    /\ Interrupted
    /\ UNCHANGED <<config, own_map>>

\* InvenioAppsUrlsBuilder(a, o, g), called directly.
Construct(a, o, g) ==
    /\ builder.state = "none"
    /\ builder' = NewBuilder(a, o, g, "direct")
    /\ Interrupted
    /\ UNCHANGED <<config, own_map>>

\* builder.setup(app), called on an existing builder.
Setup ==
    /\ builder.state # "none"
    /\ builder' = SetupBuilder(builder, config)
    /\ Interrupted
    /\ UNCHANGED <<config, own_map>>

\* How a call compares with the call before it.
Again(endpoint, values, method, outcome) ==
    IF last.called /\ last.endpoint = endpoint /\ last.values = values
       /\ last.method = method
    THEN (IF last.outcome = outcome THEN "same" ELSE "differs")
    ELSE "no"

\* build() that keeps the table it bound as its own url_map.
Build_rebinding(endpoint, values, method) ==
    /\ builder.state # "none"
    /\ LET outcome == build(builder, config, own_map, endpoint, values, method)
       IN  last' = [called |-> TRUE, fresh |-> TRUE,
                    again |-> Again(endpoint, values, method, outcome),
                    endpoint |-> endpoint, values |-> values,
                    method |-> method, outcome |-> outcome]
    /\ builder' = [builder EXCEPT !.url_map = own_map]
    /\ UNCHANGED <<config, own_map>>

\* build() that answers a repeated call from what it returned before.
Build_memoized(endpoint, values, method) ==
    /\ builder.state # "none"
    /\ LET outcome ==
             IF last.called /\ last.endpoint = endpoint
                /\ last.values = values /\ last.method = method
             THEN last.outcome
             ELSE build(builder, config, own_map, endpoint, values, method)
       IN  last' = [called |-> TRUE, fresh |-> TRUE,
                    again |-> Again(endpoint, values, method, outcome),
                    endpoint |-> endpoint, values |-> values,
                    method |-> method, outcome |-> outcome]
    /\ UNCHANGED <<config, own_map, builder>>

\* builder.build(endpoint, values, method=method) inside the application.
Build(endpoint, values, method) ==
    /\ builder.state # "none"
    /\ LET outcome == build(builder, config, own_map, endpoint, values, method)
       IN  last' = [called |-> TRUE, fresh |-> TRUE,
                    again |-> Again(endpoint, values, method, outcome),
                    endpoint |-> endpoint, values |-> values,
                    method |-> method, outcome |-> outcome]
    /\ UNCHANGED <<config, own_map, builder>>

\* app.config[key] = value, or del app.config[key].
SetConfig(key, value) ==
    /\ config[key] # value
    /\ config' = [config EXCEPT ![key] = value]
    /\ Interrupted
    /\ UNCHANGED <<own_map, builder>>

\* app.config["BLUEPRINTS_URL_PREFIXES"] = value, or its removal.
SetBlueprintsUrlPrefixes(value) ==
    /\ config.BLUEPRINTS_URL_PREFIXES # value
    /\ config' = [config EXCEPT !.BLUEPRINTS_URL_PREFIXES = value]
    /\ Interrupted
    /\ UNCHANGED <<own_map, builder>>

\* app.add_url_rule(...): the current application gains a route.
AddUrlRule(r) ==
    /\ Len(own_map) < MaxOwnRules
    /\ \A i \in 1..Len(own_map) : own_map[i] # r
    /\ own_map' = Append(own_map, r)
    /\ Interrupted
    /\ UNCHANGED <<config, builder>>

Next ==
    \/ \E g \in GroupChoices : Factory(AppPrefixKey, OtherPrefixKey, g)
    \/ \E g \in GroupChoices : Construct(AppPrefixKey, OtherPrefixKey, g)
    \/ Setup
    \/ \E e \in Endpoints, v \in ValuesDicts, m \in MethodHints : Build(e, v, m)
    \/ \E k \in PrefixKeys : \E x \in PrefixValues(k) \cup {Missing} : SetConfig(k, x)
    \/ \E x \in {NoBlueprintPrefixes, ApiBlueprintPrefixes} : SetBlueprintsUrlPrefixes(x)
    \/ \E r \in OwnRuleUniverse : AddUrlRule(r)

Spec == Init /\ [][Next]_vars

-----------------------------------------------------------------------------
(* Vocabulary of the properties.  All of it speaks about the most recent   *)
(* build() call while nothing has happened since (last.fresh), so that the *)
(* configuration and the tables are those the call ran against.            *)

InTable(map, endpoint) == \E i \in 1..Len(map) : map[i].endpoint = endpoint

StartsWith(s, p) == Len(p) <= Len(s) /\ SubSeq(s, 1, Len(p)) = p

\* What the own table and the mirror build for the arguments of the call.
OwnUrl == AdapterBuild(own_map, last.endpoint, last.values, last.method)

MirrorUrl == AdapterBuild(builder.url_map, last.endpoint, last.values, last.method)

InOwn == InTable(own_map, last.endpoint)

InMirror == InTable(builder.url_map, last.endpoint)

\* The outcome expected of a phase that built `url`: the configured value of
\* `key` in front of it, or the lookup error when the key is absent.
Expect(key, url) ==
    IF config[key] = Missing THEN [kind |-> "KeyError", value |-> key]
    ELSE [kind |-> "url", value |-> config[key] \o url]

Failure == [kind |-> "BuildError", value |-> ""]

-----------------------------------------------------------------------------
(* C1 as stated: for an endpoint present in both tables build() resolves   *)
(* through the own table whatever the values and the method hint are; the  *)
(* mirror is never consulted because the own route could not be built.     *)
(* (Stated for the endpoints the entry-point groups contribute, with both   *)
(* prefixes configured.)                                                   *)
C1_FallbackOnlyOnMissingEndpoint ==
    (/\ last.fresh /\ InOwn /\ InMirror
     /\ last.endpoint # StaticRule.endpoint
     /\ config[builder.cfg_of_app_prefix] # Missing
     /\ config[builder.cfg_of_other_app_prefix] # Missing) =>
        IF OwnUrl # <<>>
        THEN last.outcome = Expect(builder.cfg_of_app_prefix, OwnUrl[1])
        ELSE last.outcome = Failure

(* C1 amended: for an endpoint present in both tables build() resolves     *)
(* through the own table, with the own prefix, whenever the own table can  *)
(* build the endpoint with the given values and method; when it cannot     *)
(* (BuildError for missing values or a refused method) build() falls back  *)
(* to the mirror exactly as for a missing endpoint.                        *)
C1_OwnTableWinsWhenItBuilds ==
    (last.fresh /\ InOwn /\ InMirror) =>
        IF OwnUrl # <<>>
        THEN last.outcome = Expect(builder.cfg_of_app_prefix, OwnUrl[1])
        ELSE IF MirrorUrl # <<>>
        THEN last.outcome = Expect(builder.cfg_of_other_app_prefix, MirrorUrl[1])
        ELSE last.outcome = Failure

\* Both tables can build the endpoint and the own one was used.
C1_Witness ==
    /\ last.fresh /\ InOwn /\ InMirror
    /\ OwnUrl # <<>> /\ MirrorUrl # <<>> /\ OwnUrl # MirrorUrl
    /\ config[builder.cfg_of_other_app_prefix] # Missing
    /\ last.outcome = [kind |-> "url",
                       value |-> "https://main.example.org/records/abc123"]

(* C2: an endpoint registered only in the own table, buildable with the    *)
(* given values, yields the value of the own-app prefix key followed by    *)
(* the relative path of the own table, and never a string that starts with *)
(* the other-app prefix.                                                   *)
C2_OwnOnlyGetsOwnPrefix ==
    (last.fresh /\ InOwn /\ ~InMirror /\ OwnUrl # <<>>) =>
        /\ last.outcome = Expect(builder.cfg_of_app_prefix, OwnUrl[1])
        /\ (last.outcome.kind = "url"
            /\ config[builder.cfg_of_other_app_prefix] # Missing)
           => ~StartsWith(last.outcome.value,
                          config[builder.cfg_of_other_app_prefix])
        /\ (last.endpoint = "records.detail"
            /\ last.values = <<<<"id", "abc123">>>>
            /\ config[builder.cfg_of_app_prefix] = "https://main.example.org")
           => last.outcome.value = "https://main.example.org/records/abc123"

C2_Witness ==
    /\ last.fresh /\ InOwn /\ ~InMirror /\ builder.state = "ready"
    /\ config[builder.cfg_of_other_app_prefix] # Missing
    /\ last.outcome = [kind |-> "url",
                       value |-> "https://main.example.org/records/abc123"]

(* C3: an endpoint registered only in the mirror, which the mirror can     *)
(* build with the given values, yields the value of the other-app prefix   *)
(* key followed by the relative path of the mirror.                        *)
C3_MirrorOnlyGetsOtherPrefix ==
    (last.fresh /\ ~InOwn /\ InMirror /\ MirrorUrl # <<>>) =>
        /\ last.outcome = Expect(builder.cfg_of_other_app_prefix, MirrorUrl[1])
        /\ (last.endpoint = "search.results" /\ last.values = <<>>
            /\ config[builder.cfg_of_other_app_prefix] = "https://archive.example.org")
           => last.outcome.value \in {"https://archive.example.org/search",
                                      "https://archive.example.org/api/search"}

C3_Witness ==
    /\ last.fresh /\ ~InOwn /\ InMirror /\ Len(own_map) > 0
    /\ config[builder.cfg_of_app_prefix] # Missing
    /\ last.outcome = [kind |-> "url",
                       value |-> "https://archive.example.org/search"]

(* C4: on a builder obtained from the factory, an endpoint present in      *)
(* neither table makes build() fail with BuildError; no URL is returned.   *)
C4_NeitherTableFails ==
    (last.fresh /\ builder.origin = "factory" /\ ~InOwn /\ ~InMirror) =>
        last.outcome = Failure

C4_Witness ==
    /\ last.fresh /\ builder.origin = "factory" /\ ~InOwn /\ ~InMirror
    /\ last.endpoint = "nonexistent.page"
    /\ Len(own_map) > 0
    /\ config[builder.cfg_of_app_prefix] # Missing
    /\ config[builder.cfg_of_other_app_prefix] # Missing
    /\ last.outcome.kind = "BuildError"

(* C5: build() changes neither the own table, the mirror, the              *)
(* configuration nor the builder's stored fields, and a build() call that  *)
(* directly follows one with the same arguments ends the same way.         *)
C5_BuildIsIdempotent ==
    [][last'.fresh =>
          /\ config' = config /\ own_map' = own_map /\ builder' = builder
          /\ (last.fresh /\ last'.endpoint = last.endpoint
              /\ last'.values = last.values /\ last'.method = last.method)
             => last'.outcome = last.outcome]_vars

\* A call repeated with the same arguments returned the same URL.
C5_Witness ==
    /\ last.fresh /\ last.again = "same"
    /\ last.outcome.kind = "url"
    /\ builder.state = "ready" /\ Len(builder.url_map) > 1 /\ Len(own_map) > 0

(* C6: an absent prefix key surfaces as the lookup error: when the own     *)
(* table builds the endpoint and the own-app key is absent build() fails   *)
(* with KeyError and does not fall back to the mirror; when the mirror     *)
(* builds the endpoint and the other-app key is absent build() fails with  *)
(* KeyError; no default takes the place of the missing value.              *)
C6_MissingPrefixIsLookupError ==
    last.fresh =>
        /\ (OwnUrl # <<>> /\ config[builder.cfg_of_app_prefix] = Missing)
           => last.outcome = [kind |-> "KeyError",
                              value |-> builder.cfg_of_app_prefix]
        /\ (OwnUrl = <<>> /\ builder.state = "ready" /\ MirrorUrl # <<>>
            /\ config[builder.cfg_of_other_app_prefix] = Missing)
           => last.outcome = [kind |-> "KeyError",
                              value |-> builder.cfg_of_other_app_prefix]

\* The own key is absent, the mirror could have built the endpoint and the
\* other key is present: still the lookup error.
C6_Witness ==
    /\ last.fresh /\ OwnUrl # <<>> /\ MirrorUrl # <<>>
    /\ config[builder.cfg_of_app_prefix] = Missing
    /\ config[builder.cfg_of_other_app_prefix] # Missing
    /\ last.outcome.kind = "KeyError"

(* C7 as stated: whatever setup() and build() calls are made on a builder,  *)
(* the mirror is built before the first build() and, once built, is never  *)
(* mutated or replaced.                                                    *)
C7_MirrorBuiltOnce ==
    /\ [](last.called => builder.state = "ready")
    /\ [][builder.state = "ready" => builder'.url_map = builder.url_map]_vars

(* C7 amended: build() never mutates or replaces the mirror, and the       *)
(* factory calls setup() once before it returns the builder, so a builder  *)
(* obtained from the factory has its mirror before its first build(); the  *)
(* mirror changes only when setup() is called again, which rebuilds it     *)
(* from the configuration of that moment and replaces it.                  *)
C7_MirrorChangesOnlyInSetup ==
    /\ [](builder.origin = "factory" => builder.state = "ready")
    /\ [][/\ last'.fresh => builder'.url_map = builder.url_map
          /\ (builder.state = "ready" /\ builder'.url_map # builder.url_map)
             => /\ last' = [last EXCEPT !.fresh = FALSE]
                /\ builder'.state = "ready"
                /\ builder'.raised = ""
                /\ builder'.url_map =
                     CopyRules(TmpAppRules \o
                        blueprint_loader(BlueprintsUrlPrefixes(config),
                            builder.groups_of_other_app_entrypoints).rules)]_vars

\* A build() on a factory-made builder answered from the mirror.
C7_Witness ==
    /\ last.fresh /\ last.again = "same" /\ builder.origin = "factory"
    /\ ~InOwn /\ MirrorUrl # <<>> /\ last.outcome.kind = "url"

(* C8: after setup() the mirror holds exactly the handler-less             *)
(* (pattern, endpoint) copies of the routes the configured entry-point     *)
(* groups contribute: every such route, and no route of another origin     *)
(* such as one the shell application carries by itself.                    *)
C8_MirrorHoldsOnlyOtherAppRoutes ==
    builder.state = "ready" =>
        \E prefixes \in {NoBlueprintPrefixes, ApiBlueprintPrefixes} :
            builder.url_map =
                CopyRules(blueprint_loader(
                    IF prefixes.present THEN prefixes.value ELSE <<>>,
                    builder.groups_of_other_app_entrypoints).rules)

(* C9 as stated: when discovery fails during setup() the factory returns   *)
(* no builder, and no build() ever runs against a builder whose setup()    *)
(* failed.                                                                 *)
C9_NoBuildAfterFailedSetup ==
    /\ (builder.raised # "" /\ builder.origin # "direct") => builder.state = "none"
    /\ last.fresh => builder.raised = ""

(* C9 amended: when discovery fails during setup() the error leaves        *)
(* setup() and the factory: the factory returns no builder, so no build()  *)
(* runs against a factory-made builder whose setup() failed; a failing     *)
(* setup() installs no mirror (the builder keeps what it had), and a       *)
(* builder has a mirror only if discovery succeeded for its groups.  A     *)
(* builder constructed directly stays callable after its setup() failed.   *)
C9_DiscoveryFailureIsFatal ==
    /\ [](/\ (builder.origin = "factory" \/ builder.state = "ready")
             => \A i \in 1..Len(builder.groups_of_other_app_entrypoints) :
                   \A j \in 1..Len(EntryPoints(builder.groups_of_other_app_entrypoints[i])) :
                      EntryPoints(builder.groups_of_other_app_entrypoints[i])[j].loads
          /\ (builder.raised # "" /\ builder.origin # "direct")
             => builder.state = "none"
          /\ (last.fresh /\ builder.origin = "factory") => builder.raised = "")
    /\ [][(builder'.raised # "" /\ builder' # builder) =>
            /\ builder'.url_map = builder.url_map
            /\ builder'.state = builder.state
            /\ ~last'.fresh]_vars

\* The factory was called with a group whose entry point does not load.
C9_Witness ==
    builder.state = "none" /\ builder.raised = "DiscoveryError"

(* C10: every build() reads the prefixes and the own table as they are at  *)
(* the time of the call: a URL carries the prefix value now configured and *)
(* a path one of the tables now builds, a lookup error names a key now     *)
(* absent, and BuildError means the own table cannot build the endpoint    *)
(* now.                                                                    *)
C10_ReadsAreFresh ==
    last.fresh =>
        /\ last.outcome.kind = "url" =>
              \/ /\ OwnUrl # <<>>
                 /\ config[builder.cfg_of_app_prefix] # Missing
                 /\ last.outcome.value =
                       config[builder.cfg_of_app_prefix] \o OwnUrl[1]
              \/ /\ OwnUrl = <<>> /\ MirrorUrl # <<>>
                 /\ config[builder.cfg_of_other_app_prefix] # Missing
                 /\ last.outcome.value =
                       config[builder.cfg_of_other_app_prefix] \o MirrorUrl[1]
        /\ last.outcome.kind = "KeyError" => config[last.outcome.value] = Missing
        /\ last.outcome.kind = "BuildError" => OwnUrl = <<>> /\ MirrorUrl = <<>>
        /\ last.outcome.kind = "AttributeError" => OwnUrl = <<>>

\* The same call ended differently from the call before it: something it
\* reads was changed in between.
C10_Witness ==
    /\ last.fresh /\ last.again = "differs"
    /\ last.outcome = [kind |-> "url",
                       value |-> "https://www.example.org/records/abc123"]

====
